---- MODULE Spec2Model ----
(***************************************************************************)
(* Model of the image upload/download service (src/index.ts, the AVIF      *)
(* variant, and src/unnamed/part_000, the PNG variant).                    *)
(*                                                                         *)
(* Strings are sequences of one-character strings.  A request body's data  *)
(* string is the record [s, pad]: the characters s followed by pad groups  *)
(* "AAAA" (each decodes to three zero bytes), so that payloads around the  *)
(* 10 MB ceiling are representable.  A Buffer is the record [head, zeros]: *)
(* the bytes head followed by zeros zero bytes.                            *)
(***************************************************************************)
EXTENDS Integers, Sequences, FiniteSets, TLC

(* ------------------------------ bounds -------------------------------- *)
\* Number of upload requests the server receives in one behaviour.
NReq == 2
\* Longest base64 text enumerated for an upload in SpecDecode.
MaxChars == 3
\* Longest stem of a requested file name enumerated in SpecKey.
MaxStem == 2

Reqs == 1..NReq

(* --------------------------- the two variants ------------------------- *)
Variants == {"avif", "png"}

ExtChars(e) == IF e = "avif" THEN <<"a", "v", "i", "f">> ELSE <<"p", "n", "g">>

ContentType(e) == IF e = "avif" THEN "image/avif" ELSE "image/png"

ImagesDir == <<"images">>

(* ------------------------------ helpers ------------------------------- *)
Min(a, b) == IF a < b THEN a ELSE b

RECURSIVE Pow2(_)
Pow2(n) == IF n = 0 THEN 1 ELSE 2 * Pow2(n - 1)

RECURSIVE SeqsUpTo(_, _)
SeqsUpTo(S, n) ==
  IF n = 0 THEN {<<>>}
  ELSE LET shorter == SeqsUpTo(S, n - 1)
       IN  shorter \cup {Append(q, c) : q \in shorter, c \in S}

StartsWith(s, p) == Len(s) >= Len(p) /\ SubSeq(s, 1, Len(p)) = p

EndsWith(s, p) == Len(s) >= Len(p) /\ SubSeq(s, Len(s) - Len(p) + 1, Len(s)) = p

(* ------------------- data.replace(/^data:image\/png;base64,/, "") ----- *)
PngPrefix ==
  <<"d", "a", "t", "a", ":", "i", "m", "a", "g", "e", "/", "p", "n", "g",
    ";", "b", "a", "s", "e", "6", "4", ",">>

JpegPrefix ==
  <<"d", "a", "t", "a", ":", "i", "m", "a", "g", "e", "/", "j", "p", "e", "g",
    ";", "b", "a", "s", "e", "6", "4", ",">>

StripPrefix(data) ==
  IF StartsWith(data.s, PngPrefix)
  THEN [data EXCEPT !.s = SubSeq(data.s, Len(PngPrefix) + 1, Len(data.s))]
  ELSE data

(* ------------------------ Buffer.from(text, "base64") ----------------- *)
B64Table ==
  <<"A", "B", "C", "D", "E", "F", "G", "H", "I", "J", "K", "L", "M",
    "N", "O", "P", "Q", "R", "S", "T", "U", "V", "W", "X", "Y", "Z",
    "a", "b", "c", "d", "e", "f", "g", "h", "i", "j", "k", "l", "m",
    "n", "o", "p", "q", "r", "s", "t", "u", "v", "w", "x", "y", "z",
    "0", "1", "2", "3", "4", "5", "6", "7", "8", "9", "+", "/">>

B64Chars == {B64Table[i] : i \in 1..64}

B64Value(c) == (CHOOSE i \in 1..64 : B64Table[i] = c) - 1

\* Characters outside the base64 alphabet are skipped by the decoder.
B64Only(s) == SelectSeq(s, LAMBDA c : c \in B64Chars)

\* Bit k (from 0) of the 6-bit stream of s; the "AAAA" groups that follow are zeros.
Bit(s, k) ==
  IF k >= 6 * Len(s) THEN 0
  ELSE (B64Value(s[(k \div 6) + 1]) \div Pow2(5 - (k % 6))) % 2

Byte(s, i) ==
  LET b(j) == Bit(s, 8 * (i - 1) + j) * Pow2(7 - j)
  IN  b(0) + b(1) + b(2) + b(3) + b(4) + b(5) + b(6) + b(7)

Base64Decode(text) ==
  LET s      == B64Only(text.s)
      nbytes == (6 * (Len(s) + 4 * text.pad)) \div 8
      nhead  == Min(nbytes, (6 * Len(s) + 7) \div 8)
  IN  [head |-> [i \in 1..nhead |-> Byte(s, i)], zeros |-> nbytes - nhead]

BufLen(buf) == Len(buf.head) + buf.zeros

BufAt(buf, i) == IF i <= Len(buf.head) THEN buf.head[i] ELSE 0

(* ------------------------------ size check ---------------------------- *)
MAX_FILE_SIZE == 10 * 1024 * 1024

\* The check with >= in place of >.
TooLargeOffByOne(buf) == BufLen(buf) >= MAX_FILE_SIZE

\* if (imageBuffer.length > MAX_FILE_SIZE)
TooLarge(buf) == BufLen(buf) > MAX_FILE_SIZE

(* ------------------- sharp(imageBuffer).avif()/.png().toBuffer() ------ *)
\* The image library is opaque.  It is modelled as a deterministic, fallible
\* decode/re-encode: an input is an image when it starts with the PNG magic
\* byte 0x89 and carries one pixel byte; bytes after the pixel are ignored, so
\* different inputs can normalise to the same canonical bytes.  The output is
\* the target format's tag followed by the pixel.
PngMagic == 137

FormatTag(e) == IF e = "avif" THEN 102 ELSE 137

IsImage(buf) == BufLen(buf) >= 2 /\ BufAt(buf, 1) = PngMagic

Sharp(buf, e) ==
  IF IsImage(buf)
  THEN [ok |-> TRUE, bytes |-> <<FormatTag(e), BufAt(buf, 2)>>]
  ELSE [ok |-> FALSE, bytes |-> <<>>]

(* ---------- crypto.createHash("sha256").update(buf).digest("hex") ----- *)
\* SHA-256 is modelled as a collision-free rendering of the bytes into
\* DigestLen lowercase hex characters: the length, then the bytes, then zeros.
HexTable ==
  <<"0", "1", "2", "3", "4", "5", "6", "7", "8", "9", "a", "b", "c", "d", "e", "f">>

HexChars == {HexTable[i] : i \in 1..16}

DigestLen == 64

Hex2(b) == <<HexTable[(b \div 16) + 1], HexTable[(b % 16) + 1]>>

RECURSIVE HexOf(_)
HexOf(bytes) ==
  IF bytes = <<>> THEN <<>> ELSE Hex2(Head(bytes)) \o HexOf(Tail(bytes))

\* The digest of a hash object that was never updated with the buffer.
DigestNoUpdate(bytes) == [i \in 1..DigestLen |-> "0"]

Digest(bytes) ==
  LET h == Hex2(Len(bytes)) \o HexOf(bytes)
  IN  [i \in 1..DigestLen |-> IF i <= Len(h) THEN h[i] ELSE "0"]

(* ------------------------------ file names ---------------------------- *)
FileName(hash, e) == hash \o <<".">> \o ExtChars(e)

FilePath(hash, e) == ImagesDir \o <<"/">> \o FileName(hash, e)

(* --------------- file.match(/^([0-9a-f]+)\.avif$/) -------------------- *)
\* The pattern without its leading ^: the longest hex run before the suffix.
MatchFileUnanchored(file, e) ==
  LET suffix == <<".">> \o ExtChars(e)
      n      == Len(file) - Len(suffix)
      starts == {i \in 1..n : \A j \in i..n : file[j] \in HexChars}
  IN  IF EndsWith(file, suffix) /\ starts # {}
      THEN SubSeq(file, CHOOSE i \in starts : \A k \in starts : i <= k, n)
      ELSE <<>>

\* The captured hash, or <<>> when the name does not match.
MatchFile(file, e) ==
  LET suffix == <<".">> \o ExtChars(e)
      n      == Len(file) - Len(suffix)
  IN  IF EndsWith(file, suffix) /\ n >= 1 /\ \A j \in 1..n : file[j] \in HexChars
      THEN SubSeq(file, 1, n)
      ELSE <<>>

(* ------------------------------ responses ----------------------------- *)
ErrMissing == "Missing image data"

ErrTooLarge == "Image file too large, maximum allowed size is 10MB"

ErrCatch == "Invalid JSON payload or conversion error"

ErrInvalidUrl == "Invalid image URL"

ErrNotFound == "Image not found"

NoResp == [status |-> 0, text |-> "", hash |-> <<>>]

TextReply(text, status) == [status |-> status, text |-> text, hash |-> <<>>]

\* return c.json({ hash })
HashReply(hash) == [status |-> 200, text |-> "", hash |-> hash]

\* The catch block answering with a server error.
CatchReply500 == TextReply(ErrCatch, 500)

\* catch (err) { console.error(err); return c.text("...", 400); }
CatchReply == TextReply(ErrCatch, 400)

(* --------------------------- request bodies --------------------------- *)
\* kind "badjson": c.req.json() rejects; "nodata": no data field; "number": a
\* data field that is truthy and no string; "string": data is the text [s, pad].
NoText == [s |-> <<>>, pad |-> 0]

Body(kind, text) == [kind |-> kind, data |-> text]

\* if (!data)
Falsy(b) == b.kind = "nodata" \/ (b.kind = "string" /\ b.data = NoText)

\* Lines 26-41 of the upload handler: the reply it returns before the image
\* library is called, or NoResp when it goes on to the conversion.
Receive(b) ==
  IF b.kind = "badjson" THEN CatchReply
  ELSE IF Falsy(b) THEN TextReply(ErrMissing, 400)
  ELSE IF b.kind # "string" THEN CatchReply
  ELSE IF TooLarge(Base64Decode(StripPrefix(b.data))) THEN TextReply(ErrTooLarge, 400)
  ELSE NoResp

(* -------------------------------- state ------------------------------- *)
VARIABLES
  ext,    \* the variant this server instance runs: "avif" or "png"
  alive,  \* the process is running
  pc,     \* per upload request: "idle", "sharp" (awaiting the conversion), "done"
  body,   \* per upload request: the JSON body it carried
  resp,   \* per upload request: the response produced, NoResp before
  wr,     \* per upload request: its Bun.write: promise state, path, bytes, offset
  files,  \* the file system: path -> content, for the paths that exist
  get     \* the GET /:file being answered: name, status, body, content type,
          \* path read; NoGet when none is

vars == <<ext, alive, pc, body, resp, wr, files, get>>

NoWrite == [st |-> "none", path |-> <<>>, bytes |-> <<>>, off |-> 0]

NoGet ==
  [file |-> <<>>, status |-> 0, text |-> "", body |-> <<>>, ctype |-> "", read |-> <<>>]

\* A server just started on an empty images directory.
Init ==
  /\ ext \in Variants
  /\ alive = TRUE
  /\ pc = [r \in Reqs |-> "idle"]
  /\ body = [r \in Reqs |-> Body("nodata", NoText)]
  /\ resp = [r \in Reqs |-> NoResp]
  /\ wr = [r \in Reqs |-> NoWrite]
  /\ files = <<>>
  /\ get = NoGet

\* const imageBuffer = Buffer.from(base64Image, "base64")
ImageBuffer(r) == Base64Decode(StripPrefix(body[r].data))

\* Bun.write(filePath, buffer), called and not awaited: the write is queued.
BunWrite(path, bytes) == [st |-> "pending", path |-> path, bytes |-> bytes, off |-> 0]

(* ---------------------------- POST /upload ---------------------------- *)
\* The handler from the request's arrival to its first reply or to the call of
\* the image library (await c.req.json() touches no shared state).  Requests
\* are numbered in their order of arrival.
UploadRequest(r, b) ==
  /\ alive
  /\ pc[r] = "idle"
  /\ \A q \in Reqs : q < r => pc[q] # "idle"
  /\ body' = [body EXCEPT ![r] = b]
  /\ resp' = [resp EXCEPT ![r] = Receive(b)]
  /\ pc' = [pc EXCEPT ![r] = IF Receive(b) = NoResp THEN "sharp" ELSE "done"]
  /\ UNCHANGED <<ext, alive, wr, files, get>>

\* The conversion rejects: the catch block replies.
UploadReject(r) ==
  /\ alive
  /\ pc[r] = "sharp"
  /\ ~Sharp(ImageBuffer(r), ext).ok
  /\ resp' = [resp EXCEPT ![r] = CatchReply]
  /\ pc' = [pc EXCEPT ![r] = "done"]
  /\ UNCHANGED <<ext, alive, body, wr, files, get>>

\* The conversion resolves: hash, Bun.write(filePath, buffer) called and not
\* awaited, return c.json({ hash }).
UploadStore(r) ==
  /\ alive
  /\ pc[r] = "sharp"
  /\ Sharp(ImageBuffer(r), ext).ok
  /\ LET buffer == Sharp(ImageBuffer(r), ext).bytes
         hash   == Digest(buffer)
     IN  /\ wr' = [wr EXCEPT ![r] = BunWrite(FilePath(hash, ext), buffer)]
         /\ resp' = [resp EXCEPT ![r] = HashReply(hash)]
  /\ pc' = [pc EXCEPT ![r] = "done"]
  /\ UNCHANGED <<ext, alive, body, files, get>>

(* ------------------------ Bun.write in the background ----------------- *)
\* content with bytes[off+1 .. off+n] written at offset off (a gap reads as zeros).
WriteAt(content, bytes, off, n) ==
  LET len == IF Len(content) > off + n THEN Len(content) ELSE off + n
  IN  [i \in 1..len |->
         IF i > off /\ i <= off + n THEN bytes[i]
         ELSE IF i <= Len(content) THEN content[i]
         ELSE 0]

\* open(path, O_WRONLY | O_CREAT | O_TRUNC)
WriteOpen(r) ==
  /\ alive
  /\ wr[r].st = "pending"
  /\ files' = [p \in DOMAIN files \cup {wr[r].path} |->
                 IF p = wr[r].path THEN <<>> ELSE files[p]]
  /\ wr' = [wr EXCEPT ![r].st = "open"]
  /\ UNCHANGED <<ext, alive, pc, body, resp, get>>

\* write(fd, ...): some of the remaining bytes reach the file.
WriteChunk(r, n) ==
  /\ alive
  /\ wr[r].st = "open"
  /\ n >= 1
  /\ wr[r].off + n <= Len(wr[r].bytes)
  /\ files' = [files EXCEPT ![wr[r].path] = WriteAt(@, wr[r].bytes, wr[r].off, n)]
  /\ wr' = [wr EXCEPT ![r].off = @ + n]
  /\ UNCHANGED <<ext, alive, pc, body, resp, get>>

\* All bytes written: the promise fulfils.
WriteDone(r) ==
  /\ alive
  /\ wr[r].st = "open"
  /\ wr[r].off = Len(wr[r].bytes)
  /\ wr' = [wr EXCEPT ![r].st = "fulfilled"]
  /\ UNCHANGED <<ext, alive, pc, body, resp, files, get>>

\* The open or a write fails (disk full, permissions): the promise rejects with
\* no handler attached; the runtime reports it and may end the process.
WriteFail(r, survives) ==
  /\ alive
  /\ wr[r].st \in {"pending", "open"}
  /\ wr' = [wr EXCEPT ![r].st = "rejected"]
  /\ alive' = survives
  /\ UNCHANGED <<ext, pc, body, resp, files, get>>

(* ------------------------------ GET /:file ---------------------------- *)
\* return c.text("Invalid image URL", 400), before any file is read
InvalidUrlReply(file) ==
  [file |-> file, status |-> 400, text |-> ErrInvalidUrl, body |-> <<>>,
   ctype |-> "text/plain", read |-> <<>>]

\* The catch block answering as the pattern's failure does.
NotFoundAsInvalid(file, path) ==
  [file |-> file, status |-> 400, text |-> ErrInvalidUrl, body |-> <<>>,
   ctype |-> "text/plain", read |-> path]

\* catch (err) { return c.text("Image not found", 404); }
NotFoundReply(file, path) ==
  [file |-> file, status |-> 404, text |-> ErrNotFound, body |-> <<>>,
   ctype |-> "text/plain", read |-> path]

\* new Response(imageBuffer, { status: 200, headers: { "Content-Type": ... } })
FileReply(file, path, content, e) ==
  [file |-> file, status |-> 200, text |-> "", body |-> content,
   ctype |-> ContentType(e), read |-> path]

\* The handler is synchronous: one GET is answered at a time.
Get(file) ==
  /\ alive
  /\ get = NoGet
  /\ get' =
       IF MatchFile(file, ext) = <<>> THEN InvalidUrlReply(file)
       ELSE LET path == FilePath(MatchFile(file, ext), ext)
            IN  IF path \in DOMAIN files
                THEN FileReply(file, path, files[path], ext)
                ELSE NotFoundReply(file, path)
  /\ UNCHANGED <<ext, alive, pc, body, resp, wr, files>>

\* The response has been sent.
GetReturn ==
  /\ get # NoGet
  /\ get' = NoGet
  /\ UNCHANGED <<ext, alive, pc, body, resp, wr, files>>

(* ------------------------------- inputs ------------------------------- *)
Text(s) == [s |-> s, pad |-> 0]

\* The number of "AAAA" groups after which a two-character text decodes to
\* exactly MAX_FILE_SIZE bytes (and a three-character text to one byte more).
BigPad == (MAX_FILE_SIZE - 1) \div 3

\* "iVA" and "iVQ" decode to images with pixels 80 and 84; "QQ" decodes to no
\* image; "iVA" with BigPad is one byte over the ceiling.
RejectedBodies ==
  { Body("badjson", NoText),
    Body("nodata", NoText),
    Body("string", Text(<<"Q", "Q">>)),
    Body("string", [s |-> <<"i", "V", "A">>, pad |-> BigPad]) }

\* One image bare and in a data URI, and another image.
SomeBodies ==
  RejectedBodies \cup
  { Body("string", Text(<<"i", "V", "A">>)),
    Body("string", Text(PngPrefix \o <<"i", "V", "A">>)),
    Body("string", Text(<<"i", "V", "Q">>)) }

\* One image with and without a byte after it ("iVAQ"), and another image.
UploadBodies ==
  RejectedBodies \cup
  { Body("string", Text(<<"i", "V", "A">>)),
    Body("string", Text(<<"i", "V", "A", "Q">>)),
    Body("string", Text(<<"i", "V", "Q">>)) }

\* The names of the two images' files, an unknown well-formed name, a malformed one.
SomeNames ==
  [e \in Variants |->
     { FileName(Digest(<<FormatTag(e), 80>>), e),
       FileName(Digest(<<FormatTag(e), 84>>), e),
       FileName(<<"a", "0">>, e),
       <<".", ".", "/", "a", "0">> \o <<".">> \o ExtChars(e) }]

TextChars == {"i", "V", "A", "Q"}

AllTexts ==
  { [s |-> pre \o s, pad |-> pad] :
      pre \in {<<>>, PngPrefix, JpegPrefix},
      s \in SeqsUpTo(TextChars, MaxChars),
      pad \in {0, BigPad} }

AllBodies ==
  { Body("badjson", NoText), Body("nodata", NoText), Body("number", NoText) }
    \cup { Body("string", t) : t \in AllTexts }

StemChars == {"a", "0", "F", "g", "/", "."}

OtherExt(e) == IF e = "avif" THEN "png" ELSE "avif"

Suffixes(e) ==
  { <<>>,
    <<".">> \o ExtChars(e),
    <<".">> \o ExtChars(OtherExt(e)),
    <<".">> \o ExtChars(e) \o <<".">> \o ExtChars(e),
    <<".">> \o ExtChars(e) \o <<"/">> }

AllNames ==
  [e \in Variants |->
     { stem \o suffix : stem \in SeqsUpTo(StemChars, MaxStem), suffix \in Suffixes(e) }
       \cup { FileName(Digest(<<FormatTag(e), 80>>), e) }]

(* --------------------------- specifications --------------------------- *)
Background ==
  \/ \E r \in Reqs : UploadReject(r)
  \/ \E r \in Reqs : UploadStore(r)
  \/ \E r \in Reqs : WriteOpen(r)
  \/ \E r \in Reqs, n \in 1..2 : WriteChunk(r, n)
  \/ \E r \in Reqs : WriteDone(r)
  \/ \E r \in Reqs, survives \in BOOLEAN : WriteFail(r, survives)

\* Concurrent uploads and downloads of a few images.
Next ==
  \/ \E r \in Reqs, b \in SomeBodies : UploadRequest(r, b)
  \/ Background
  \/ \E file \in SomeNames[ext] : Get(file)
  \/ GetReturn

Spec == Init /\ [][Next]_vars

\* Concurrent uploads alone.
NextUploads ==
  \/ \E r \in Reqs, b \in UploadBodies : UploadRequest(r, b)
  \/ Background

SpecUploads == Init /\ [][NextUploads]_vars

\* Uploads handled one after the other: a request arrives once every earlier
\* one has been answered; the writes they started go on in the background.
NextSeq ==
  \/ \E r \in Reqs, b \in SomeBodies :
       (\A q \in Reqs : q < r => pc[q] = "done") /\ UploadRequest(r, b)
  \/ Background

SpecSeq == Init /\ [][NextSeq]_vars

\* One upload, its body drawn from every kind of body and every short text.
NextDecode ==
  \/ \E b \in AllBodies : UploadRequest(1, b)
  \/ Background

SpecDecode == Init /\ [][NextDecode]_vars

\* One upload, and downloads by every short file name.
NextKey ==
  \/ \E b \in SomeBodies : UploadRequest(1, b)
  \/ Background
  \/ \E file \in AllNames[ext] : Get(file)
  \/ GetReturn

SpecKey == Init /\ [][NextKey]_vars

(* ------------------------------- claims ------------------------------- *)
LowerHex ==
  {"0", "1", "2", "3", "4", "5", "6", "7", "8", "9", "a", "b", "c", "d", "e", "f"}

\* name is one or more lowercase hex characters, a dot and the extension of e.
IsHexName(name, e) ==
  LET n == Len(name) - Len(ExtChars(e)) - 1
  IN  /\ n >= 1
      /\ \A i \in 1..n : name[i] \in LowerHex
      /\ name[n + 1] = "."
      /\ SubSeq(name, n + 2, Len(name)) = ExtChars(e)

\* path is a file of that form directly inside the images directory.
IsStorePath(path, e) ==
  /\ Len(path) > 2
  /\ path[1] = "images"
  /\ path[2] = "/"
  /\ IsHexName(SubSeq(path, 3, Len(path)), e)

Uploaded(r) == pc[r] = "done" /\ resp[r].status = 200

\* C1: whenever an upload has answered 200 with a hash, the write of that
\* hash's file has already completed successfully.
C1_HashOnlyAfterWrite ==
  \A r \in Reqs : Uploaded(r) => wr[r].st = "fulfilled"

\* C2: a GET of {hash}.{ext} handled after an upload answered 200 with that
\* hash answers 200 with the canonical bytes and the variant's content type.
C2_RoundTrip ==
  [][\A r \in Reqs :
       (Uploaded(r) /\ get = NoGet /\ get' # NoGet
          /\ get'.file = FileName(resp[r].hash, ext))
       => (get'.status = 200 /\ get'.body = wr[r].bytes
             /\ get'.ctype = ContentType(ext))]_vars

\* The two bodies carry the same base64 text, bare or behind the data URI prefix.
SameTextOtherWrapping(b1, b2) ==
  /\ b1.kind = "string" /\ b2.kind = "string"
  /\ b1.data.pad = b2.data.pad
  /\ \/ b1.data.s = b2.data.s
     \/ b1.data.s = PngPrefix \o b2.data.s
     \/ b2.data.s = PngPrefix \o b1.data.s

\* C3: two uploads of the same image, bare or wrapped in the data URI prefix,
\* answer the same hash, and once both have answered the store holds exactly
\* the one file of that image with its canonical bytes.
C3_DedupIdempotent ==
  \A r1, r2 \in Reqs :
    (r1 < r2 /\ Uploaded(r1) /\ Uploaded(r2)
       /\ SameTextOtherWrapping(body[r1], body[r2]))
    => /\ resp[r2].hash = resp[r1].hash
       /\ DOMAIN files = {FilePath(resp[r1].hash, ext)}
       /\ files[FilePath(resp[r1].hash, ext)] = wr[r1].bytes

\* C4: a GET whose name is not lowercase hex, a dot and the fixed extension
\* answers 400 and reads no file; every path read is {images}/{hex}.{ext}.
C4_KeyRejection ==
  /\ (get # NoGet /\ ~IsHexName(get.file, ext))
       => (get.status = 400 /\ get.read = <<>>)
  /\ get.read # <<>> => IsStorePath(get.read, ext)

\* A name with a path separator and the right extension was refused.
C4_Witness ==
  /\ get.status = 400
  /\ \E i \in 1..Len(get.file) : get.file[i] = "/"
  /\ EndsWith(get.file, <<".">> \o ExtChars(ext))

\* C5: a decoded payload of at most MAX_FILE_SIZE bytes passes the size check
\* and reaches the conversion; a longer one is answered 400 too-large before
\* any conversion, hash or write, image or not.
C5_SizeBoundary ==
  \A r \in Reqs :
    (pc[r] # "idle" /\ body[r].kind = "string" /\ ~Falsy(body[r]))
    => IF BufLen(ImageBuffer(r)) > 10 * 1024 * 1024
       THEN /\ pc[r] = "done"
            /\ resp[r] = TextReply(ErrTooLarge, 400)
            /\ wr[r] = NoWrite
            /\ DOMAIN files = {}
       ELSE /\ resp[r].text # ErrTooLarge
            /\ pc[r] = "sharp" \/ resp[r] = CatchReply \/ resp[r].status = 200

\* An image of exactly MAX_FILE_SIZE bytes was accepted and stored.
C5_Witness ==
  \E r \in Reqs :
    /\ Uploaded(r)
    /\ BufLen(ImageBuffer(r)) = 10 * 1024 * 1024
    /\ wr[r].st = "fulfilled"

Rejected(r) == pc[r] = "done" /\ resp[r].status # 200

\* C6: an upload that ends without a hash is answered 400, never starts a
\* write, and the step that rejects it changes no file, no write, no other
\* request and leaves the process running; a body without data is answered
\* "Missing image data" at once.
C6_RejectedUploadsInert ==
  /\ [](\A r \in Reqs :
          /\ Rejected(r) =>
               /\ resp[r].status = 400
               /\ resp[r].text \in {ErrMissing, ErrTooLarge, ErrCatch}
               /\ wr[r] = NoWrite
          /\ (pc[r] # "idle" /\ Falsy(body[r])) =>
               (pc[r] = "done" /\ resp[r] = TextReply(ErrMissing, 400)))
  /\ [][\A r \in Reqs :
          (pc[r] # "done" /\ pc'[r] = "done" /\ resp'[r].status # 200)
          => /\ files' = files
             /\ wr' = wr
             /\ alive' = alive
             /\ \A q \in Reqs \ {r} : pc'[q] = pc[q] /\ resp'[q] = resp[q]]_vars

\* A failed conversion was rejected beside an upload that was stored, and the
\* process runs.
C6_Witness ==
  \E r, q \in Reqs :
    /\ Rejected(r) /\ resp[r].text = ErrCatch /\ body[r].kind = "string"
    /\ Uploaded(q) /\ wr[q].st = "fulfilled"
    /\ files[wr[q].path] = wr[q].bytes
    /\ alive

\* C7: a GET whose name is well-formed and names no stored file answers 404
\* "Image not found".
C7_UnknownDigest ==
  (get # NoGet /\ IsHexName(get.file, ext)
     /\ (ImagesDir \o <<"/">> \o get.file) \notin DOMAIN files)
  => (get.status = 404 /\ get.text = ErrNotFound)

\* A full-length digest name that was never stored was answered 404.
C7_Witness ==
  /\ get.status = 404
  /\ Len(get.file) = 64 + 1 + Len(ExtChars(ext))
  /\ DOMAIN files = {}

\* C8: uploads that convert to the same bytes answer the same hash, uploads
\* that convert to different bytes answer different hashes, and once every
\* write of a hash has completed its file holds exactly the canonical bytes
\* and no other file does; a step changes only a file some write of it names.
C8_ConcurrentUploadsConverge ==
  /\ [](\A r1 \in Reqs :
          Uploaded(r1) =>
            LET same == {r2 \in Reqs : Uploaded(r2) /\ wr[r2].bytes = wr[r1].bytes}
                path == FilePath(resp[r1].hash, ext)
            IN  /\ \A r2 \in Reqs :
                     Uploaded(r2) => (r2 \in same <=> resp[r2].hash = resp[r1].hash)
                /\ (\A r2 \in same : wr[r2].st = "fulfilled")
                     => /\ path \in DOMAIN files
                        /\ files[path] = wr[r1].bytes
                        /\ \A p \in DOMAIN files : files[p] = wr[r1].bytes => p = path)
  /\ [][\A p \in DOMAIN files :
          /\ p \in DOMAIN files'
          /\ files'[p] # files[p] =>
               \E r \in Reqs : wr[r].path = p /\ wr'[r] # wr[r]]_vars

\* Two different payloads of one image and a different image were all stored.
C8_Witness ==
  \E r1, r2 \in Reqs :
    /\ r1 # r2
    /\ Uploaded(r1) /\ Uploaded(r2)
    /\ body[r1] # body[r2]
    /\ resp[r1].hash = resp[r2].hash
    /\ wr[r1].st = "fulfilled" /\ wr[r2].st = "fulfilled"
    /\ files[wr[r1].path] = wr[r1].bytes

\* C9: once a file holds the canonical bytes of an upload, every later state
\* shows it with the same bytes.
C9_StoredObjectsImmutable ==
  [][\A p \in DOMAIN files :
       (\E r \in Reqs : Uploaded(r) /\ wr[r].path = p /\ files[p] = wr[r].bytes)
       => (p \in DOMAIN files' /\ files'[p] = files[p])]_vars

\* C10: every file in the store is {d}.{ext} with d the 64-character digest of
\* the file's own content, which is the canonical bytes of some upload.
C10_StoreLayout ==
  \A p \in DOMAIN files :
    /\ p = ImagesDir \o <<"/">> \o Digest(files[p]) \o <<".">> \o ExtChars(ext)
    /\ Len(Digest(files[p])) = 64
    /\ \E r \in Reqs : Uploaded(r) /\ files[p] = wr[r].bytes

====
